---- MODULE Spec2Model ----
(***************************************************************************)
(* Verification model of the bubbles frontend slice:                       *)
(*   - ClusterStatusService   (status polling loop, ReplaySubject(1))      *)
(*   - ServicesService        (REST wrappers and the derived exists())     *)
(*   - DeclarativeFormComponent (form building, id generation, showError)  *)
(*                                                                         *)
(* The rxjs operators are modelled with the semantics of rxjs 6 (the       *)
(* 'rxjs/operators' entry point the sources import from): delay() delays   *)
(* the complete notification as well as the values, so an empty cycle      *)
(* (filtered out, or ended by catchError -> EMPTY) is repeated only after  *)
(* the delay.                                                              *)
(***************************************************************************)
EXTENDS Integers, Sequences, FiniteSets, TLC

VARIABLES
  \* ---- ClusterStatusService ----
  url,          \* router.url
  inflight,     \* number of clusterService.status() requests awaiting a result
  timerArmed,   \* delay(5000) holds a notification (the cycle's completion)
  elapsed,      \* seconds since the delay was armed
  destroyed,    \* ngOnDestroy has run: the subscription is unsubscribed
  buffer,       \* statusSource: the ReplaySubject's replay buffer
  observers,    \* current subscribers of status$
  received,     \* what each current subscription has been handed so far
  started,      \* number of status requests issued so far
  results,      \* outcomes of the status requests resolved so far
  lastCycle,    \* what the most recent start of a cycle did: "fetch" or "skip"
  prevented,    \* error.preventDefault() was called by the last catchError
  \* ---- ServicesService ----
  svcState,     \* "idle", "pending" (a caller awaits the response) or "done"
  call,         \* the last method called and its argument
  response,     \* the HTTP response to the last call
  out,          \* notifications handed to the subscriber of the last call
  svcPrevented, \* error.preventDefault() was called by exists()
  \* ---- DeclarativeFormComponent ----
  nextUniqueId, \* the module-level counter
  config,       \* per component instance: the @Input config
  formGroup,    \* per component instance: whether built, and the controls by name
  submitted,    \* per component instance: FormGroupDirective.submitted
  issued        \* identifiers that _.defaultsDeep actually assigned

statusVars == <<url, inflight, timerArmed, elapsed, destroyed, buffer, observers,
                received, started, results, lastCycle, prevented>>
svcVars    == <<svcState, call, response, out, svcPrevented>>
formVars   == <<nextUniqueId, config, formGroup, submitted, issued>>
vars       == <<statusVars, svcVars, formVars>>

(***************************************************************************)
(* Bounds                                                                  *)
(***************************************************************************)
MaxFetches == 3
\* total number of field descriptors (leaves and containers) in the configs
MaxNodes   == 3
\* number of field descriptors of the config the form operations run on
MaxFormNodes == 2

(***************************************************************************)
(* ClusterStatusService                                                    *)
(***************************************************************************)
Urls        == {"/login", "/dashboard"}
Subscribers == {"s1", "s2"}

\* delay(5000), in seconds
PollDelay  == 5
\* new ReplaySubject<ClusterStatus>(1)
BufferSize == 1

NextNote(v) == [kind |-> "next", value |-> v]

\* filter(() => this.router.url !== '/login')
ShouldFetchMutAlways(u) == TRUE
ShouldFetch(u) == u # "/login"

\* delay(5000): the held notification is released once the delay has passed
DelayDueMutNoDelay(t) == TRUE
DelayDue(t) == t >= PollDelay

\* ReplaySubject.next: the buffer keeps the last BufferSize values
Trim(s) == IF Len(s) > BufferSize THEN SubSeq(s, Len(s) - BufferSize + 1, Len(s)) ELSE s
BufferNextMutKeepFirst(buf, v) == IF buf = <<>> THEN <<v>> ELSE buf
BufferNext(buf, v) == Trim(Append(buf, v))

\* ReplaySubject.next: every current observer is handed the value, synchronously
DeliverMutSkip(rcv, obs, v) ==
  [s \in Subscribers |->
     IF s \in obs /\ s = "s1" THEN Append(rcv[s], NextNote(v)) ELSE rcv[s]]
Deliver(rcv, obs, v) ==
  [s \in Subscribers |-> IF s \in obs THEN Append(rcv[s], NextNote(v)) ELSE rcv[s]]

\* The state right after the constructor: subscribe() runs the first cycle
\* synchronously (of(true) -> filter -> mergeMap).
InitStatus ==
  /\ url \in Urls
  /\ inflight = (IF ShouldFetch(url) THEN 1 ELSE 0)
  /\ started = (IF ShouldFetch(url) THEN 1 ELSE 0)
  /\ timerArmed = ~ShouldFetch(url)
  /\ lastCycle = (IF ShouldFetch(url) THEN "fetch" ELSE "skip")
  /\ elapsed = 0
  /\ destroyed = FALSE
  /\ buffer = <<>>
  /\ observers = {}
  /\ received = [s \in Subscribers |-> <<>>]
  /\ results = <<>>
  /\ prevented = FALSE

\* Time passes while delay() holds the cycle's completion.
Tick ==
  /\ timerArmed
  /\ elapsed < PollDelay
  /\ elapsed' = elapsed + 1
  /\ UNCHANGED <<url, inflight, timerArmed, destroyed, buffer, observers, received,
                 started, results, lastCycle, prevented>>
  /\ UNCHANGED <<svcVars, formVars>>

\* delay() releases the completion, repeat() resubscribes: of(true) emits,
\* filter passes it on and mergeMap issues the request.
CycleFetch ==
  /\ timerArmed
  /\ DelayDue(elapsed)
  /\ ShouldFetch(url)
  /\ started < MaxFetches
  /\ inflight' = inflight + 1
  /\ started' = started + 1
  /\ timerArmed' = FALSE
  /\ elapsed' = 0
  /\ lastCycle' = "fetch"
  /\ UNCHANGED <<url, destroyed, buffer, observers, received, results, prevented>>
  /\ UNCHANGED <<svcVars, formVars>>

\* delay() releases the completion, repeat() resubscribes: filter drops the
\* value, the empty cycle completes at once and delay() holds that completion.
CycleSkip ==
  /\ timerArmed
  /\ DelayDue(elapsed)
  /\ ~ShouldFetch(url)
  /\ timerArmed' = TRUE
  /\ elapsed' = 0
  /\ lastCycle' = "skip"
  /\ UNCHANGED <<url, inflight, destroyed, buffer, observers, received, started,
                 results, prevented>>
  /\ UNCHANGED <<svcVars, formVars>>

\* The request resolves with a value (the payload is opaque: it is named by
\* the number of the request it answers): tap publishes it, delay holds the
\* value and the completion that follows it.
FetchSuccess ==
  /\ inflight > 0
  /\ inflight' = inflight - 1
  /\ results' = Append(results, [ok |-> TRUE, value |-> started])
  /\ buffer' = BufferNext(buffer, started)
  /\ received' = Deliver(received, observers, started)
  /\ timerArmed' = TRUE
  /\ elapsed' = 0
  /\ UNCHANGED <<url, destroyed, observers, started, lastCycle, prevented>>
  /\ UNCHANGED <<svcVars, formVars>>

\* The request fails: catchError calls preventDefault when the error has one
\* and continues with EMPTY, whose completion delay holds.
FetchFailureMutNoCatch(hasPreventDefault) ==
  /\ inflight > 0
  /\ inflight' = inflight - 1
  /\ results' = Append(results, [ok |-> FALSE, value |-> started])
  /\ timerArmed' = FALSE
  /\ elapsed' = 0
  /\ UNCHANGED <<url, destroyed, buffer, observers, received, started, lastCycle, prevented>>
  /\ UNCHANGED <<svcVars, formVars>>
FetchFailure(hasPreventDefault) ==
  /\ inflight > 0
  /\ inflight' = inflight - 1
  /\ results' = Append(results, [ok |-> FALSE, value |-> started])
  /\ prevented' = hasPreventDefault
  /\ timerArmed' = TRUE
  /\ elapsed' = 0
  /\ UNCHANGED <<url, destroyed, buffer, observers, received, started, lastCycle>>
  /\ UNCHANGED <<svcVars, formVars>>

\* ngOnDestroy: unsubscribing tears the chain down, which aborts the request
\* in flight and cancels the action delay() has scheduled.
ngOnDestroyMutNoCancel ==
  /\ ~destroyed
  /\ destroyed' = TRUE
  /\ UNCHANGED <<url, inflight, timerArmed, elapsed, buffer, observers, received,
                 started, results, lastCycle, prevented>>
  /\ UNCHANGED <<svcVars, formVars>>
ngOnDestroy ==
  /\ ~destroyed
  /\ destroyed' = TRUE
  /\ inflight' = 0
  /\ timerArmed' = FALSE
  /\ UNCHANGED <<url, elapsed, buffer, observers, received, started, results,
                 lastCycle, prevented>>
  /\ UNCHANGED <<svcVars, formVars>>

\* The router navigates.
Navigate(u) ==
  /\ u # url
  /\ url' = u
  /\ UNCHANGED <<inflight, timerArmed, elapsed, destroyed, buffer, observers,
                 received, started, results, lastCycle, prevented>>
  /\ UNCHANGED <<svcVars, formVars>>

\* status$.subscribe(): the ReplaySubject replays its buffer to the newcomer.
Subscribe(s) ==
  /\ s \notin observers
  /\ observers' = observers \cup {s}
  /\ received' = [received EXCEPT ![s] = [i \in 1..Len(buffer) |-> NextNote(buffer[i])]]
  /\ UNCHANGED <<url, inflight, timerArmed, elapsed, destroyed, buffer, started,
                 results, lastCycle, prevented>>
  /\ UNCHANGED <<svcVars, formVars>>

Unsubscribe(s) ==
  /\ s \in observers
  /\ observers' = observers \ {s}
  /\ UNCHANGED <<url, inflight, timerArmed, elapsed, destroyed, buffer, received,
                 started, results, lastCycle, prevented>>
  /\ UNCHANGED <<svcVars, formVars>>

NextStatus ==
  \/ Tick
  \/ CycleFetch
  \/ CycleSkip
  \/ FetchSuccess
  \/ \E h \in BOOLEAN : FetchFailure(h)
  \/ ngOnDestroy
  \/ \E u \in Urls : Navigate(u)
  \/ \E s \in Subscribers : Subscribe(s)
  \/ \E s \in Subscribers : Unsubscribe(s)

(***************************************************************************)
(* ServicesService                                                         *)
(***************************************************************************)
ServiceNames == {"present-service", "missing-service", "other-service"}
Methods      == {"create", "list", "get", "exists", "delete"}
ErrorStatus  == {"404", "500", "401", "0"}

Calls ==
  {[op |-> m, name |-> n] : m \in Methods \ {"list"}, n \in ServiceNames}
    \cup {[op |-> "list", name |-> ""]}

\* What the backend may answer: a success with a body, or an error; the error
\* object may or may not carry a preventDefault function.
Responses ==
  {[ok |-> TRUE, status |-> "200", hasPreventDefault |-> FALSE]}
    \cup {[ok |-> FALSE, status |-> st, hasPreventDefault |-> h] :
            st \in ErrorStatus, h \in BOOLEAN}

Note(k, v) == [kind |-> k, value |-> v]

\* this.http.get/post/delete: one value and completion, or one error
HttpNotes(r) ==
  IF r.ok THEN <<Note("next", "body"), Note("complete", "")>>
          ELSE <<Note("error", r.status)>>

\* mapTo(v)
mapTo(notes, v) ==
  [i \in 1..Len(notes) |->
     IF notes[i].kind = "next" THEN Note("next", v) ELSE notes[i]]

\* catchError(() => of(v)): an error is replaced by the value v and completion
catchErrorOf(notes, v) ==
  IF notes # <<>> /\ notes[Len(notes)].kind = "error"
    THEN SubSeq(notes, 1, Len(notes) - 1) \o <<Note("next", v), Note("complete", "")>>
    ELSE notes

\* exists(name): get(name).pipe(mapTo(true), catchError(... of(false)))
existsMutNoCatch(notes) == mapTo(notes, "true")
exists(notes) == catchErrorOf(mapTo(notes, "true"), "false")

\* What the caller of a method observes for a given response.
Observed(op, r) == IF op = "exists" THEN exists(HttpNotes(r)) ELSE HttpNotes(r)

InitServices ==
  /\ svcState = "idle"
  /\ call = [op |-> "list", name |-> ""]
  /\ response = [ok |-> TRUE, status |-> "200", hasPreventDefault |-> FALSE]
  /\ out = <<>>
  /\ svcPrevented = FALSE

\* A caller subscribes to the observable a method returns: the request is sent.
Call(c) ==
  /\ svcState # "pending"
  /\ svcState' = "pending"
  /\ call' = c
  /\ out' = <<>>
  /\ svcPrevented' = FALSE
  /\ UNCHANGED response
  /\ UNCHANGED <<statusVars, formVars>>

\* The backend answers.
Respond(r) ==
  /\ svcState = "pending"
  /\ svcState' = "done"
  /\ response' = r
  /\ out' = Observed(call.op, r)
  /\ svcPrevented' = (call.op = "exists" /\ ~r.ok /\ r.hasPreventDefault)
  /\ UNCHANGED call
  /\ UNCHANGED <<statusVars, formVars>>

NextServices ==
  \/ \E c \in Calls : Call(c)
  \/ \E r \in Responses : Respond(r)

(***************************************************************************)
(* DeclarativeFormComponent                                                *)
(***************************************************************************)
Instances == {1, 2}

\* An identifier `${prefix}-${n}`; the decimal n follows the last dash, so
\* two such strings are equal exactly when prefix and n both are.
Id(prefix, n) == [prefix |-> prefix, n |-> n]
Undefined     == [prefix |-> "undefined", n |-> 0]

Required  == [kind |-> "required", arg |-> 0]
MinLength == [kind |-> "minLength", arg |-> 2]

Leaf(name, type, id, validators) ==
  [name |-> name, type |-> type, id |-> id, validators |-> validators,
   hasFields |-> FALSE, fields |-> <<>>]
\* a field with a `fields` array
Container(fields) ==
  [name |-> "group", type |-> "container", id |-> Undefined, validators |-> {},
   hasFields |-> TRUE, fields |-> fields]

Leaves ==
  { Leaf("a", "text", Undefined, {Required, MinLength}),
    Leaf("a", "checkbox", Undefined, {}),
    Leaf("b", "radio", Undefined, {Required}),
    Leaf("b", "radio", Id("b", 2), {}) }

\* Field trees with exactly n descriptors.
RECURSIVE ForestsOf(_), TreesOf(_)
TreesOf(n) ==
  IF n = 1 THEN Leaves \cup {Container(<<>>)}
           ELSE {Container(f) : f \in ForestsOf(n - 1)}
ForestsOf(n) ==
  IF n = 0 THEN {<<>>}
  ELSE UNION { {<<t>> \o r : t \in TreesOf(k), r \in ForestsOf(n - k)} : k \in 1..n }

FormIds == {Undefined, Id("my-form", 1)}
ConfigsOf(n) == {[id |-> i, fields |-> f] : i \in FormIds, f \in ForestsOf(n)}

FieldNames == {"a", "b"}
\* control values: null / '' is the empty sequence
Values == {<<>>, <<"x">>, <<"x", "y">>}
NoErrorCode == "<undefined>"
ErrorCodes  == {NoErrorCode, "", "required", "minlength"}
Paths       == FieldNames \cup {"group", "nope"}

\* getFields(): flatten, depth-first; a field with a `fields` array is
\* replaced by its flattened sub-fields
RECURSIVE flatten(_)
flatten(fields) ==
  IF fields = <<>> THEN <<>>
  ELSE LET field == Head(fields) IN
       (IF field.hasFields THEN flatten(field.fields) ELSE <<field>>)
         \o flatten(Tail(fields))

RECURSIVE flattenMutShallow(_)
flattenMutShallow(fields) ==
  IF fields = <<>> THEN <<>>
  ELSE LET field == Head(fields) IN
       (IF field.hasFields THEN field.fields ELSE <<field>>)
         \o flattenMutShallow(Tail(fields))

getFieldsMutShallow(c) == flattenMutShallow(c.fields)
getFields(c) == flatten(c.fields)

\* Validators.required / Validators.minLength on a control value
Errors(control) ==
  {"required" : x \in {v \in control.validators :
                         v.kind = "required" /\ control.value = <<>>}}
    \cup
  {"minlength" : x \in {v \in control.validators :
                          /\ v.kind = "minLength"
                          /\ control.value # <<>>
                          /\ Len(control.value) < v.arg}}
invalid(control) == Errors(control) # {}
hasError(control, errorCode) == errorCode \in Errors(control)

\* createFormControl(field): the value defaults to null (the fields tried
\* carry no default value), the control is pristine.
\* edited / patched record who made the control dirty (history, not read by
\* the component).
createFormControl(field) ==
  [value |-> <<>>, dirty |-> FALSE, validators |-> field.validators,
   edited |-> FALSE, patched |-> FALSE]

\* createForm(): controlsConfig[field.name] = ...; a later field of the same
\* name overwrites an earlier one
createForm(c) ==
  LET fs == getFields(c)
      names == {fs[k].name : k \in 1..Len(fs)}
      last(nm) == CHOOSE k \in 1..Len(fs) :
                    fs[k].name = nm /\ \A j \in (k + 1)..Len(fs) : fs[j].name # nm
  IN [nm \in names |-> createFormControl(fs[last(nm)])]

\* `${field.name}-${++nextUniqueId}`
GenFieldIdMutNoCounter(name, n) == Id(name, 0)
GenFieldId(name, n) == Id(name, n)

\* the forEach of ngOnInit over the flattened fields, starting with counter n:
\* the ids it leaves on the fields, the counter, and the ids it assigned
RECURSIVE assignIds(_, _)
assignIds(fs, n) ==
  IF fs = <<>> THEN [fields |-> <<>>, n |-> n, issued |-> <<>>]
  ELSE LET field == Head(fs)
           gen   == field.type \in {"checkbox", "radio"}
           n1    == IF gen THEN n + 1 ELSE n
           set   == gen /\ field.id = Undefined
           nf    == IF set THEN [field EXCEPT !.id = GenFieldId(field.name, n1)]
                           ELSE field
           rest  == assignIds(Tail(fs), n1)
       IN [fields |-> <<nf>> \o rest.fields,
           n      |-> rest.n,
           issued |-> (IF set THEN <<nf.id>> ELSE <<>>) \o rest.issued]

\* The field objects are changed in place: the tree with its leaves, in
\* depth-first order, replaced by `ls`.
RECURSIVE withLeaves(_, _)
withLeaves(fields, ls) ==
  IF fields = <<>> THEN <<>>
  ELSE LET field == Head(fields)
           k     == IF field.hasFields THEN Len(flatten(field.fields)) ELSE 1
           nf    == IF field.hasFields
                      THEN [field EXCEPT !.fields = withLeaves(field.fields, SubSeq(ls, 1, k))]
                      ELSE ls[1]
       IN <<nf>> \o withLeaves(Tail(fields), SubSeq(ls, k + 1, Len(ls)))

EmptyConfig == [id |-> Undefined, fields |-> <<>>]

\* Freshly constructed components: the counter at its initial value, no
\* form built.
FormFresh ==
  /\ nextUniqueId = 0
  /\ formGroup = [i \in Instances |-> [built |-> FALSE, controls |-> <<>>]]
  /\ submitted = [i \in Instances |-> FALSE]
  /\ issued = <<>>

\* Two component instances whose configs hold at most MaxNodes descriptors
\* in total.
InitBuild ==
  /\ FormFresh
  /\ \E k \in 0..MaxNodes :
       \E c1 \in ConfigsOf(k) :
         \E m \in 0..(MaxNodes - k) :
           \E c2 \in ConfigsOf(m) :
             config = [i \in Instances |-> IF i = 1 THEN c1 ELSE c2]

\* One instance with a config of at most MaxFormNodes descriptors, the other
\* with a config without fields.
InitForm ==
  /\ FormFresh
  /\ \E k \in 0..MaxFormNodes :
       \E c1 \in ConfigsOf(k) :
         config = [i \in Instances |-> IF i = 1 THEN c1 ELSE EmptyConfig]

\* ngOnInit of instance i: the form id, the field ids, then createForm().
\* (The other defaults it puts on the fields, placeholder and the like, and
\* the onValueChanges wiring are not read by anything modelled here.)
ngOnInit(i) ==
  /\ ~formGroup[i].built
  /\ LET n0     == nextUniqueId + 1
         formId == IF config[i].id = Undefined
                     THEN Id("cb-declarative-form", n0) ELSE config[i].id
         r      == assignIds(getFields(config[i]), n0)
         c      == [id |-> formId, fields |-> withLeaves(config[i].fields, r.fields)]
     IN /\ nextUniqueId' = r.n
        /\ config' = [config EXCEPT ![i] = c]
        /\ issued' = issued
                      \o (IF config[i].id = Undefined THEN <<formId>> ELSE <<>>)
                      \o r.issued
        /\ formGroup' = [formGroup EXCEPT ![i] = [built |-> TRUE, controls |-> createForm(c)]]
  /\ UNCHANGED submitted
  /\ UNCHANGED <<statusVars, svcVars>>

\* patchValues(values, markAsDirty): formGroup.patchValue(values), then
\* markAsDirty() on the control of every key
patchValues(i, values, markAsDirty) ==
  /\ formGroup[i].built
  /\ formGroup' = [formGroup EXCEPT ![i].controls =
       [nm \in DOMAIN formGroup[i].controls |->
          IF nm \in DOMAIN values
            THEN [formGroup[i].controls[nm] EXCEPT
                    !.value = values[nm],
                    !.dirty = @ \/ markAsDirty,
                    !.patched = @ \/ markAsDirty]
            ELSE formGroup[i].controls[nm]]]
  /\ UNCHANGED <<nextUniqueId, config, submitted, issued>>
  /\ UNCHANGED <<statusVars, svcVars>>

\* The user edits the input bound to a control: the value accessor sets the
\* value and marks the control dirty.
UserEdit(i, nm, v) ==
  /\ formGroup[i].built
  /\ nm \in DOMAIN formGroup[i].controls
  /\ formGroup' = [formGroup EXCEPT ![i].controls[nm] =
                     [@ EXCEPT !.value = v, !.dirty = TRUE, !.edited = TRUE]]
  /\ UNCHANGED <<nextUniqueId, config, submitted, issued>>
  /\ UNCHANGED <<statusVars, svcVars>>

\* The user submits the form: FormGroupDirective.submitted becomes true.
Submit(i) ==
  /\ formGroup[i].built
  /\ ~submitted[i]
  /\ submitted' = [submitted EXCEPT ![i] = TRUE]
  /\ UNCHANGED <<nextUniqueId, config, formGroup, issued>>
  /\ UNCHANGED <<statusVars, svcVars>>

\* showError(path, fgd, errorCode), fgd being the directive of the instance's form
showErrorMutNoDirty(i, path, errorCode) ==
  IF formGroup[i].built /\ path \in DOMAIN formGroup[i].controls
    THEN LET control == formGroup[i].controls[path] IN
         IF errorCode \notin {NoErrorCode, ""}
           THEN hasError(control, errorCode) ELSE invalid(control)
    ELSE FALSE
showError(i, path, errorCode) ==
  IF formGroup[i].built /\ path \in DOMAIN formGroup[i].controls
    THEN LET control == formGroup[i].controls[path] IN
         (submitted[i] \/ control.dirty)
           /\ (IF errorCode \notin {NoErrorCode, ""}
                 THEN hasError(control, errorCode) ELSE invalid(control))
    ELSE FALSE

\* the `values` arguments tried: one known key with any value, or several
\* keys, one of them without a control
PatchSets ==
  UNION ({[K -> Values] : K \in {{"a"}, {"b"}}}
           \cup {[K -> {<<"x">>}] : K \in {{"a", "b"}, {"b", "nope"}}})

NextForm ==
  \/ \E i \in Instances : ngOnInit(i)
  \/ \E i \in Instances, vs \in PatchSets, d \in BOOLEAN : patchValues(i, vs, d)
  \/ \E i \in Instances, nm \in FieldNames, v \in Values : UserEdit(i, nm, v)
  \/ \E i \in Instances : Submit(i)

(***************************************************************************)
(* Specifications                                                          *)
(***************************************************************************)
\* A component that is not exercised stays in one of its initial states.
QuietStatus == InitStatus /\ url = "/login"
QuietForm   == FormFresh /\ config = [i \in Instances |-> EmptyConfig]

Init == InitStatus /\ InitServices /\ InitBuild
Next == NextStatus \/ NextServices \/ NextForm
Spec == Init /\ [][Next]_vars

StatusInit == InitStatus /\ InitServices /\ QuietForm
SpecStatus == StatusInit /\ [][NextStatus]_vars

\* Time passes, the scheduled release of delay() runs when it is due (and
\* starts the next cycle, whichever way the filter decides), and every
\* request is eventually answered.
LiveStatus ==
  /\ SpecStatus
  /\ WF_vars(Tick)
  /\ WF_vars(CycleFetch \/ CycleSkip)
  /\ WF_vars(FetchSuccess \/ \E h \in BOOLEAN : FetchFailure(h))

ServicesInit == QuietStatus /\ InitServices /\ QuietForm
SpecServices == ServicesInit /\ [][NextServices]_vars

\* building the forms of the component instances
BuildInit == QuietStatus /\ InitServices /\ InitBuild
NextBuild == \E i \in Instances : ngOnInit(i)
SpecBuild == BuildInit /\ [][NextBuild]_vars

\* building a form and operating it
FormInit == QuietStatus /\ InitServices /\ InitForm
SpecForm == FormInit /\ [][NextForm]_vars

(***************************************************************************)
(* Properties                                                              *)
(***************************************************************************)
Last(seq) == seq[Len(seq)]

\* a status request resolved in this step, with a value / with an error
Resolved    == Len(results') = Len(results) + 1
SuccessStep == Resolved /\ Last(results').ok
FailureStep == Resolved /\ ~Last(results').ok
\* the delay ran out in this step and a new cycle began
CycleStart  == timerArmed /\ elapsed = PollDelay /\ elapsed' = 0 /\ ~Resolved /\ ~destroyed'

\* the value of the most recent successful fetch, as a replay buffer
LastOk ==
  LET oks == SelectSeq(results, LAMBDA r : r.ok)
  IN IF oks = <<>> THEN <<>> ELSE <<Last(oks).value>>

\* C1: in the step in which a status fetch succeeds, every subscriber that
\* is subscribed at that moment is handed the fetched value exactly once
\* (its log grows by that one value); in no other step, the expiry of the
\* delay included, does a standing subscription receive anything.
C1_DeliveredOnceOnSuccess ==
  [][ /\ SuccessStep =>
           \A s \in observers :
             /\ s \in observers'
             /\ received'[s] = Append(received[s], NextNote(Last(results').value))
      /\ ~SuccessStep =>
           \A s \in observers \cap observers' : received'[s] = received[s]
    ]_vars

\* both subscribers have been handed the values of two successful fetches
C1_Witness ==
  /\ observers = Subscribers
  /\ \A s \in Subscribers : Len(received[s]) >= 2
  /\ Len(SelectSeq(results, LAMBDA r : r.ok)) >= 2

\* C2: the replay buffer of status$ always holds exactly the value of the
\* most recent successful fetch (nothing before the first success); a late
\* subscriber is handed that value at once; a failed fetch changes neither
\* the buffer nor what any subscriber has received, and no subscriber is ever
\* handed an error.
C2_LatestIsLastSuccess ==
  /\ [](buffer = LastOk)
  /\ [](\A s \in Subscribers : \A k \in 1..Len(received[s]) : received[s][k].kind = "next")
  /\ [][ /\ FailureStep => buffer' = buffer /\ received' = received
         /\ \A s \in observers' \ observers :
              received'[s] = [k \in 1..Len(LastOk) |-> NextNote(LastOk[k])]
       ]_vars

\* two successes were followed by a failure; one subscriber was there all
\* along, the other subscribed late and was handed the latest value only
C2_Witness ==
  /\ Len(results) = 3
  /\ results[1].ok /\ results[2].ok /\ ~results[3].ok
  /\ observers = Subscribers
  /\ \E s, t \in Subscribers :
       /\ received[s] = <<NextNote(results[1].value), NextNote(results[2].value)>>
       /\ received[t] = <<NextNote(results[2].value)>>

\* C3: at most one status request is in flight, and a request is issued only
\* by a cycle that starts when no request is in flight and the full delay has
\* passed since the previous cycle's result (success or failure).
C3_NoOverlapAndDelay ==
  /\ [](inflight <= 1)
  /\ [][ started' # started =>
           /\ started' = started + 1
           /\ inflight = 0
           /\ timerArmed
           /\ elapsed = PollDelay
       ]_vars

\* a third request is in flight after one success and one failure
C3_Witness ==
  /\ inflight = 1
  /\ started = 3
  /\ Len(results) = 2
  /\ \E j, k \in 1..2 : results[j].ok /\ ~results[k].ok

\* a fetch has failed, the service is alive and waits out the delay
AfterFailure(n) ==
  /\ started = n
  /\ inflight = 0
  /\ ~destroyed
  /\ results # <<>>
  /\ ~Last(results).ok

\* C4 as stated: after any fetch failure a further fetch is eventually
\* issued as long as the service is not destroyed and requests resolve.
C4_Original ==
  \A n \in 0..(MaxFetches - 1) :
    AfterFailure(n) ~> (started > n \/ destroyed)

\* C4 amended: while a request is in flight no further request is issued;
\* after any fetch failure, unless the service is destroyed, eventually a
\* further fetch is issued or a cycle starts while the URL is '/login' (and
\* is skipped).
C4_LoopGoesOn ==
  /\ [][inflight > 0 => started' = started]_vars
  /\ \A n \in 0..(MaxFetches - 1) :
       AfterFailure(n) ~> (started > n \/ destroyed \/ lastCycle = "skip")

\* two failures in a row, and a third request issued
C4_Witness ==
  /\ Len(results) = 2
  /\ ~results[1].ok
  /\ ~results[2].ok
  /\ started = 3
  /\ inflight = 1

\* C5: once ngOnDestroy has run no request is issued or resolved, the buffer
\* of status$ keeps its value and no standing subscription receives anything.
C5_DestroyCancels ==
  [][ destroyed =>
        /\ started' = started
        /\ results' = results
        /\ buffer' = buffer
        /\ \A s \in observers \cap observers' : received'[s] = received[s]
    ]_vars

\* destroyed while a request was in flight, with a subscriber listening
C5_Witness ==
  /\ destroyed
  /\ started > Len(results)
  /\ observers # {}
  /\ buffer # <<>>

\* C10: the fetch at construction is skipped when the URL is '/login'; every
\* later cycle issues a request exactly when the URL is not '/login' at its
\* start; a skipped cycle publishes nothing and arms the delay again; and
\* while the URL is not '/login' and the service is alive and idle, a fetch
\* is eventually issued unless the URL returns to '/login'.
C10_LoginCheckEveryCycle ==
  /\ (url = "/login" => started = 0 /\ inflight = 0 /\ timerArmed)
  /\ (url # "/login" => started = 1 /\ inflight = 1)
  /\ [][ started' # started => url # "/login" ]_vars
  /\ [][ CycleStart /\ started < MaxFetches =>
           /\ (started' = started + 1) <=> (url # "/login")
           /\ (url = "/login") =>
                timerArmed' /\ buffer' = buffer /\ received' = received
       ]_vars
  /\ \A n \in 0..(MaxFetches - 1) :
       (started = n /\ inflight = 0 /\ ~destroyed /\ url # "/login")
         ~> (started > n \/ destroyed \/ url = "/login")

\* after a fetch a later cycle was skipped at '/login'; the URL has left
\* '/login' again and the next cycle is due
C10_Witness ==
  /\ lastCycle = "skip"
  /\ started >= 1
  /\ url # "/login"
  /\ elapsed = PollDelay
  /\ ~destroyed

\* C6: exists() hands its caller exactly one boolean and completion: true
\* when the GET succeeded, false when it failed, whatever the error; the
\* other methods hand an error on unchanged.
C6_ExistsNeverFails ==
  svcState = "done" =>
    /\ call.op = "exists" =>
         out = <<Note("next", IF response.ok THEN "true" ELSE "false"),
                 Note("complete", "")>>
    /\ (call.op # "exists" /\ ~response.ok) =>
         out = <<Note("error", response.status)>>

\* exists() answered false on an error that is not a 404
C6_Witness ==
  /\ svcState = "done"
  /\ call.op = "exists"
  /\ response.status = "500"
  /\ out = <<Note("next", "false"), Note("complete", "")>>

\* number of leaf fields of a field tree
RECURSIVE LeafCount(_)
LeafCount(fields) ==
  IF fields = <<>> THEN 0
  ELSE (IF Head(fields).hasFields THEN LeafCount(Head(fields).fields) ELSE 1)
         + LeafCount(Tail(fields))

RECURSIVE Depth(_)
Depth(fields) ==
  IF fields = <<>> THEN 0
  ELSE LET d  == IF Head(fields).hasFields THEN 1 + Depth(Head(fields).fields) ELSE 0
           dt == Depth(Tail(fields))
       IN IF d > dt THEN d ELSE dt

\* C7 as stated: a built form has as many controls as the config has leaves.
C7_Original ==
  \A i \in Instances :
    formGroup[i].built =>
      Cardinality(DOMAIN formGroup[i].controls) = LeafCount(config[i].fields)

\* C7 amended: the flattening yields exactly the N leaves, whatever the
\* nesting; the built form has one control per distinct leaf name, hence N
\* controls when the leaf names are pairwise distinct; a field with a
\* `fields` array never becomes a control.
C7_OneControlPerLeafName ==
  \A i \in Instances :
    LET fs == getFields(config[i]) IN
    /\ Len(fs) = LeafCount(config[i].fields)
    /\ \A k \in 1..Len(fs) : ~fs[k].hasFields
    /\ formGroup[i].built =>
         /\ DOMAIN formGroup[i].controls = {fs[k].name : k \in 1..Len(fs)}
         /\ Cardinality(DOMAIN formGroup[i].controls) <= Len(fs)
         /\ (\A j, k \in 1..Len(fs) : j # k => fs[j].name # fs[k].name) =>
              Cardinality(DOMAIN formGroup[i].controls) = Len(fs)
         /\ "group" \notin DOMAIN formGroup[i].controls

\* a form built from two nested leaves of different names
C7_Witness ==
  \E i \in Instances :
    /\ formGroup[i].built
    /\ Depth(config[i].fields) >= 1
    /\ LeafCount(config[i].fields) = 2
    /\ Cardinality(DOMAIN formGroup[i].controls) = 2

\* C8 as stated: after ngOnInit every field has an identifier.
C8_Original ==
  \A i \in Instances :
    formGroup[i].built =>
      \A k \in 1..Len(getFields(config[i])) : getFields(config[i])[k].id # Undefined

\* C8 amended: after ngOnInit the form and every checkbox or radio field
\* have an identifier; the identifiers generated so far are pairwise
\* distinct; the counter never decreases; an identifier that is present is
\* never replaced.
C8_GeneratedIdsDistinct ==
  /\ [](\A i \in Instances :
          formGroup[i].built =>
            /\ config[i].id # Undefined
            /\ \A k \in 1..Len(getFields(config[i])) :
                 getFields(config[i])[k].type \in {"checkbox", "radio"}
                   => getFields(config[i])[k].id # Undefined)
  /\ [](\A j, k \in 1..Len(issued) : j # k => issued[j] # issued[k])
  /\ [][ /\ nextUniqueId' >= nextUniqueId
         /\ \A i \in Instances :
              /\ config[i].id # Undefined => config'[i].id = config[i].id
              /\ Len(getFields(config'[i])) = Len(getFields(config[i]))
              /\ \A k \in 1..Len(getFields(config[i])) :
                   getFields(config[i])[k].id # Undefined
                     => getFields(config'[i])[k].id = getFields(config[i])[k].id
       ]_vars

\* both instances are built; two form ids and two field ids were generated,
\* and a field that came with an identifier has kept it
C8_Witness ==
  /\ \A i \in Instances : formGroup[i].built
  /\ Cardinality({k \in 1..Len(issued) : issued[k].prefix = "cb-declarative-form"}) = 2
  /\ Cardinality({k \in 1..Len(issued) : issued[k].prefix \in FieldNames}) = 2
  /\ \E i \in Instances : \E k \in 1..Len(getFields(config[i])) :
       getFields(config[i])[k].id = Id("b", 2)

Control(i, path) == formGroup[i].controls[path]
HasControl(i, path) == formGroup[i].built /\ path \in DOMAIN formGroup[i].controls

\* C9 as stated: for a control the user has not edited, in a form that has
\* not been submitted, showError is false whatever happened to the form.
C9_Original ==
  \A i \in Instances, path \in Paths, code \in ErrorCodes :
    (HasControl(i, path) /\ ~Control(i, path).edited /\ ~submitted[i])
      => ~showError(i, path, code)

\* C9 amended: showError is false for a control that is not dirty in a form
\* that has not been submitted, and a control is dirty only if the user
\* edited it or patchValues marked it; it is true for an invalid dirty control
\* when no error code is asked for; with a non-empty error code it is true
\* only if the control has that error; without a control it is false.
C9_ShowErrorNeedsDirtyOrSubmitted ==
  \A i \in Instances, path \in Paths, code \in ErrorCodes :
    IF HasControl(i, path)
      THEN LET control == Control(i, path) IN
           /\ control.dirty <=> (control.edited \/ control.patched)
           /\ (~control.dirty /\ ~submitted[i]) => ~showError(i, path, code)
           /\ (control.dirty /\ invalid(control) /\ code = NoErrorCode)
                => showError(i, path, code)
           /\ (code \notin {NoErrorCode, ""} /\ showError(i, path, code))
                => hasError(control, code)
      ELSE ~showError(i, path, code)

\* a control that only patchValues touched is invalid and its error is shown
C9_Witness ==
  \E i \in Instances, path \in Paths :
    /\ HasControl(i, path)
    /\ ~submitted[i]
    /\ Control(i, path).patched
    /\ ~Control(i, path).edited
    /\ showError(i, path, "minlength")
    /\ ~showError(i, path, "required")

====
